---- MODULE Spec2Model ----
(***************************************************************************)
(* Model of pkg/infra/httpclient/httpclientprovider/http_client_provider.go *)
(* New builds the fixed middleware list, overwrites the SDK's global        *)
(* DefaultTimeoutOptions and returns a provider whose ConfigureTransport    *)
(* hook tags the dial function of every transport built for a datasource.   *)
(***************************************************************************)
EXTENDS Integers, Sequences, FiniteSets, TLC

\* ------------------------------------------------------------------ bounds
MaxNameLen == 2
MaxProviders == 2
MaxClients == 1
MaxRequests == 2

\* time.Second, in time.Duration's unit (nanoseconds)
Second == 1000000000

\* ------------------------------------------------------------------ strings
\* A datasource name is a sequence of one-character strings.
Lower == {"a","b","c","d","e","f","g","h","i","j","k","l","m",
          "n","o","p","q","r","s","t","u","v","w","x","y","z"}
Upper == {"A","B","C","D","E","F","G","H","I","J","K","L","M",
          "N","O","P","Q","R","S","T","U","V","W","X","Y","Z"}
Digits == {"0","1","2","3","4","5","6","7","8","9"}

Chars == {"a", "7", " ", "!"}
Names == UNION {[1..n -> Chars] : n \in 0..MaxNameLen}

RECURSIVE SanitizeFrom(_, _)
SanitizeFrom(name, i) ==
  IF i > Len(name) THEN <<>>
  ELSE LET b == name[i]
           out == IF b \in Lower \cup Upper \cup {"_"} \/ (b \in Digits /\ i > 1)
                    THEN <<b>>
                    ELSE IF b = " " THEN <<"_">> ELSE <<>>
       IN out \o SanitizeFrom(name, i + 1)

\* metricutil.SanitizeLabelName: (value, err)
SanitizeLabelName(name) ==
  IF Len(name) = 0 THEN [err |-> TRUE, value |-> <<>>]
  ELSE LET out == SanitizeFrom(name, 1)
       IN IF Len(out) = 0 THEN [err |-> TRUE, value |-> <<>>]
                          ELSE [err |-> FALSE, value |-> out]

\* ------------------------------------------------------------------ policy (setting.Cfg)
CfgA == [BuildVersion |-> "9.0.0", ResponseLimit |-> 0,
         SigV4AuthEnabled |-> FALSE, SigV4VerboseLogging |-> FALSE,
         DataProxyTimeout |-> 1, DataProxyDialTimeout |-> 2,
         DataProxyKeepAlive |-> 1, DataProxyTLSHandshakeTimeout |-> 2,
         DataProxyExpectContinueTimeout |-> 1, DataProxyMaxConnsPerHost |-> 0,
         DataProxyMaxIdleConns |-> 100, DataProxyMaxIdleConnsPerHost |-> 100,
         DataProxyIdleConnTimeout |-> 2]
CfgB == [BuildVersion |-> "9.0.0", ResponseLimit |-> 1024,
         SigV4AuthEnabled |-> TRUE, SigV4VerboseLogging |-> TRUE,
         DataProxyTimeout |-> 2, DataProxyDialTimeout |-> 1,
         DataProxyKeepAlive |-> 2, DataProxyTLSHandshakeTimeout |-> 1,
         DataProxyExpectContinueTimeout |-> 2, DataProxyMaxConnsPerHost |-> 8,
         DataProxyMaxIdleConns |-> 50, DataProxyMaxIdleConnsPerHost |-> 5,
         DataProxyIdleConnTimeout |-> 1]
CfgC == [BuildVersion |-> "9.1.0", ResponseLimit |-> 0,
         SigV4AuthEnabled |-> TRUE, SigV4VerboseLogging |-> FALSE,
         DataProxyTimeout |-> 0, DataProxyDialTimeout |-> 0,
         DataProxyKeepAlive |-> 0, DataProxyTLSHandshakeTimeout |-> 0,
         DataProxyExpectContinueTimeout |-> 0, DataProxyMaxConnsPerHost |-> 4,
         DataProxyMaxIdleConns |-> 10, DataProxyMaxIdleConnsPerHost |-> 2,
         DataProxyIdleConnTimeout |-> 0]
Cfgs == {CfgA, CfgB, CfgC}

\* ------------------------------------------------------------------ sdkhttpclient.Options
LabelKeys == {"datasource_name", "har_log_enabled", "har_log_path"}
HarValues == {"true", "false", "TRUE", "1", ""}
HarPaths == {"/tmp/ds.har"}

Restrict(f, S) == [k \in S |-> f[k]]

\* every label map over the three keys the package reads, each key present or absent
LabelMaps(names, flags, paths) ==
  {Restrict(f, S) : f \in [datasource_name : names, har_log_enabled : flags,
                           har_log_path : paths],
                    S \in SUBSET LabelKeys}

\* Options.Timeouts is a pointer: <<>> is nil, <<t>> points at t
CustomTimeouts == [Timeout |-> 2 * Second, DialTimeout |-> 2 * Second,
                   KeepAlive |-> 2 * Second, TLSHandshakeTimeout |-> 2 * Second,
                   ExpectContinueTimeout |-> 2 * Second, MaxConnsPerHost |-> 1,
                   MaxIdleConns |-> 1, MaxIdleConnsPerHost |-> 1,
                   IdleConnTimeout |-> 2 * Second]

AllOptions == [Labels : LabelMaps(Names, HarValues, HarPaths), Timeouts : {<<>>}]
FewOptions == [Labels : LabelMaps({<<"a">>}, {"true"}, HarPaths)
                          \ {l \in LabelMaps({<<"a">>}, {"true"}, HarPaths) :
                               "har_log_path" \in DOMAIN l},
               Timeouts : {<<>>, <<CustomTimeouts>>}]

\* v, exists := m[k]
Has(labels, k) == k \in DOMAIN labels

\* ------------------------------------------------------------------ state
VARIABLES
  DefaultTimeoutOptions,  \* sdkhttpclient.DefaultTimeoutOptions, the package-level global
  providers,              \* the providers New has returned, in call order
  clients,                \* the clients built from those providers, in build order
  served,                 \* what each request through a built client did, in order
  history,                \* the global writes and provider constructions, in program order
  loggerEvals             \* how many times the body of the http-logger middleware has run

vars == <<DefaultTimeoutOptions, providers, clients, served, history, loggerEvals>>

\* the value the SDK gives its global before this package touches it
SdkDefaultTimeoutOptions ==
  [Timeout |-> 2 * Second, DialTimeout |-> 1 * Second, KeepAlive |-> 2 * Second,
   TLSHandshakeTimeout |-> 1 * Second, ExpectContinueTimeout |-> 1 * Second,
   MaxConnsPerHost |-> 0, MaxIdleConns |-> 100, MaxIdleConnsPerHost |-> 100,
   IdleConnTimeout |-> 2 * Second]

\* ------------------------------------------------------------------ setDefaultTimeoutOptions
\* variant: the request timeout is read from the dial timeout
setDefaultTimeoutOptionsDialAsTimeout(cfg) ==
  [Timeout               |-> cfg.DataProxyDialTimeout * Second,
   DialTimeout           |-> cfg.DataProxyDialTimeout * Second,
   KeepAlive             |-> cfg.DataProxyKeepAlive * Second,
   TLSHandshakeTimeout   |-> cfg.DataProxyTLSHandshakeTimeout * Second,
   ExpectContinueTimeout |-> cfg.DataProxyExpectContinueTimeout * Second,
   MaxConnsPerHost       |-> cfg.DataProxyMaxConnsPerHost,
   MaxIdleConns          |-> cfg.DataProxyMaxIdleConns,
   MaxIdleConnsPerHost   |-> cfg.DataProxyMaxIdleConns,
   IdleConnTimeout       |-> cfg.DataProxyIdleConnTimeout * Second]

\* variant: only the first call writes the global
setDefaultTimeoutOptionsKeepFirst(cfg) ==
  IF history # <<>> THEN DefaultTimeoutOptions
  ELSE [Timeout               |-> cfg.DataProxyTimeout * Second,
        DialTimeout           |-> cfg.DataProxyDialTimeout * Second,
        KeepAlive             |-> cfg.DataProxyKeepAlive * Second,
        TLSHandshakeTimeout   |-> cfg.DataProxyTLSHandshakeTimeout * Second,
        ExpectContinueTimeout |-> cfg.DataProxyExpectContinueTimeout * Second,
        MaxConnsPerHost       |-> cfg.DataProxyMaxConnsPerHost,
        MaxIdleConns          |-> cfg.DataProxyMaxIdleConns,
        MaxIdleConnsPerHost   |-> cfg.DataProxyMaxIdleConns,
        IdleConnTimeout       |-> cfg.DataProxyIdleConnTimeout * Second]

setDefaultTimeoutOptions(cfg) ==
  [Timeout               |-> cfg.DataProxyTimeout * Second,
   DialTimeout           |-> cfg.DataProxyDialTimeout * Second,
   KeepAlive             |-> cfg.DataProxyKeepAlive * Second,
   TLSHandshakeTimeout   |-> cfg.DataProxyTLSHandshakeTimeout * Second,
   ExpectContinueTimeout |-> cfg.DataProxyExpectContinueTimeout * Second,
   MaxConnsPerHost       |-> cfg.DataProxyMaxConnsPerHost,
   MaxIdleConns          |-> cfg.DataProxyMaxIdleConns,
   MaxIdleConnsPerHost   |-> cfg.DataProxyMaxIdleConns,
   IdleConnTimeout       |-> cfg.DataProxyIdleConnTimeout * Second]

\* ------------------------------------------------------------------ the middleware list of New
\* variant: the signing middleware is put first instead of appended
MiddlewaresSigV4First(cfg) ==
  LET middlewares ==
        << [name |-> "TracingMiddleware"],
           [name |-> "DataSourceMetricsMiddleware"],
           [name |-> "httpLoggerMiddleware"],
           [name |-> "SetUserAgentMiddleware", userAgent |-> <<"Grafana/", cfg.BuildVersion>>],
           [name |-> "BasicAuthenticationMiddleware"],
           [name |-> "CustomHeadersMiddleware"],
           [name |-> "ResponseLimitMiddleware", limit |-> cfg.ResponseLimit] >>
  IN IF cfg.SigV4AuthEnabled
       THEN << [name |-> "SigV4Middleware", verbose |-> cfg.SigV4VerboseLogging] >>
            \o middlewares
       ELSE middlewares

Middlewares(cfg) ==
  LET middlewares ==
        << [name |-> "TracingMiddleware"],
           [name |-> "DataSourceMetricsMiddleware"],
           [name |-> "httpLoggerMiddleware"],
           [name |-> "SetUserAgentMiddleware", userAgent |-> <<"Grafana/", cfg.BuildVersion>>],
           [name |-> "BasicAuthenticationMiddleware"],
           [name |-> "CustomHeadersMiddleware"],
           [name |-> "ResponseLimitMiddleware", limit |-> cfg.ResponseLimit] >>
  IN IF cfg.SigV4AuthEnabled
       THEN Append(middlewares, [name |-> "SigV4Middleware",
                                 verbose |-> cfg.SigV4VerboseLogging])
       ELSE middlewares

\* ------------------------------------------------------------------ newConntrackRoundTripper
newConntrackRoundTripper(name, transport) ==
  [transport EXCEPT !.DialContext =
     [kind |-> "conntrack", name |-> name, dial |-> transport.DialContext]]

\* variant: the sanitization error is not looked at
ConfigureTransportIgnoreErr(opts, transport) ==
  IF ~Has(opts.Labels, "datasource_name") THEN transport
  ELSE LET datasourceLabelName == SanitizeLabelName(opts.Labels["datasource_name"])
       IN newConntrackRoundTripper(datasourceLabelName.value, transport)

\* the ConfigureTransport closure of New
ConfigureTransport(opts, transport) ==
  IF ~Has(opts.Labels, "datasource_name") THEN transport
  ELSE LET datasourceLabelName == SanitizeLabelName(opts.Labels["datasource_name"])
       IN IF datasourceLabelName.err THEN transport
          ELSE newConntrackRoundTripper(datasourceLabelName.value, transport)

\* ------------------------------------------------------------------ httpLoggerMiddleware
DefaultHarPath == "<default>"

\* variant: the datasource_name check is missing (a missing key reads as "")
httpLoggerNoNameCheck(opts, next) ==
  IF ~Has(opts.Labels, "har_log_enabled") \/ opts.Labels["har_log_enabled"] # "true"
    THEN next
    ELSE LET datasourceName == IF Has(opts.Labels, "datasource_name")
                                 THEN opts.Labels["datasource_name"] ELSE <<>>
             hl == [kind |-> "HTTPLogger", pluginID |-> datasourceName,
                    proxied |-> next, enabled |-> TRUE, path |-> DefaultHarPath]
         IN IF Has(opts.Labels, "har_log_path")
              THEN [hl EXCEPT !.path = opts.Labels["har_log_path"]]
              ELSE hl

\* variant: the flag only has to be present
httpLoggerFlagPresent(opts, next) ==
  IF ~Has(opts.Labels, "datasource_name") THEN next
  ELSE IF ~Has(opts.Labels, "har_log_enabled")
    THEN next
    ELSE LET hl == [kind |-> "HTTPLogger", pluginID |-> opts.Labels["datasource_name"],
                    proxied |-> next, enabled |-> TRUE, path |-> DefaultHarPath]
         IN IF Has(opts.Labels, "har_log_path")
              THEN [hl EXCEPT !.path = opts.Labels["har_log_path"]]
              ELSE hl

\* variant: WithEnabledCheck is left out, so the logger's own check (off) decides per request
httpLoggerOwnCheck(opts, next) ==
  IF ~Has(opts.Labels, "datasource_name") THEN next
  ELSE IF ~Has(opts.Labels, "har_log_enabled") \/ opts.Labels["har_log_enabled"] # "true"
    THEN next
    ELSE LET hl == [kind |-> "HTTPLogger", pluginID |-> opts.Labels["datasource_name"],
                    proxied |-> next, enabled |-> FALSE, path |-> DefaultHarPath]
         IN IF Has(opts.Labels, "har_log_path")
              THEN [hl EXCEPT !.path = opts.Labels["har_log_path"]]
              ELSE hl

httpLoggerMiddleware(opts, next) ==
  IF ~Has(opts.Labels, "datasource_name") THEN next
  ELSE IF ~Has(opts.Labels, "har_log_enabled") \/ opts.Labels["har_log_enabled"] # "true"
    THEN next
    ELSE LET hl == [kind |-> "HTTPLogger", pluginID |-> opts.Labels["datasource_name"],
                    proxied |-> next, enabled |-> TRUE, path |-> DefaultHarPath]
         IN IF Has(opts.Labels, "har_log_path")
              THEN [hl EXCEPT !.path = opts.Labels["har_log_path"]]
              ELSE hl

\* ------------------------------------------------------------------ New
\* variant: the provider is constructed before the global is written
NewProviderFirst(cfg) ==
  /\ Len(providers) < MaxProviders
  /\ DefaultTimeoutOptions' = setDefaultTimeoutOptions(cfg)
  /\ providers' = Append(providers, [Middlewares |-> Middlewares(cfg), cfg |-> cfg])
  /\ history' = history \o << [op |-> "newProviderFunc", provider |-> Len(providers) + 1],
                              [op |-> "setDefaultTimeoutOptions", cfg |-> cfg] >>
  /\ UNCHANGED <<clients, served, loggerEvals>>

New(cfg) ==
  /\ Len(providers) < MaxProviders
  /\ DefaultTimeoutOptions' = setDefaultTimeoutOptions(cfg)
  /\ providers' = Append(providers, [Middlewares |-> Middlewares(cfg), cfg |-> cfg])
  /\ history' = history \o << [op |-> "setDefaultTimeoutOptions", cfg |-> cfg],
                              [op |-> "newProviderFunc", provider |-> Len(providers) + 1] >>
  /\ UNCHANGED <<clients, served, loggerEvals>>

\* ------------------------------------------------------------------ building a client (SDK)
\* the transport the SDK makes from the timeouts in force
BaseTransport(timeouts) ==
  [kind |-> "Transport",
   DialContext |-> [kind |-> "net.Dialer", Timeout |-> timeouts.DialTimeout,
                    KeepAlive |-> timeouts.KeepAlive],
   TLSHandshakeTimeout |-> timeouts.TLSHandshakeTimeout,
   ExpectContinueTimeout |-> timeouts.ExpectContinueTimeout,
   MaxConnsPerHost |-> timeouts.MaxConnsPerHost,
   MaxIdleConns |-> timeouts.MaxIdleConns,
   MaxIdleConnsPerHost |-> timeouts.MaxIdleConnsPerHost,
   IdleConnTimeout |-> timeouts.IdleConnTimeout]

\* one middleware applied to the transport below it
CreateMiddleware(mw, opts, next) ==
  IF mw.name = "httpLoggerMiddleware" THEN httpLoggerMiddleware(opts, next)
  ELSE [kind |-> "Middleware", name |-> mw.name, next |-> next]

\* the round tripper made of middlewares i.. wrapped around transport, first one outermost
RECURSIVE Chain(_, _, _, _)
Chain(opts, middlewares, i, transport) ==
  IF i > Len(middlewares) THEN transport
  ELSE CreateMiddleware(middlewares[i], opts, Chain(opts, middlewares, i + 1, transport))

LoggerIndex(middlewares) ==
  CHOOSE i \in 1..Len(middlewares) : middlewares[i].name = "httpLoggerMiddleware"

WritesSoFar ==
  Len(SelectSeq(history, LAMBDA e : e.op = "setDefaultTimeoutOptions"))

BuildWith(p, opts) ==
  LET timeouts == IF opts.Timeouts = <<>> THEN DefaultTimeoutOptions ELSE opts.Timeouts[1]
      created == BaseTransport(timeouts)
      transport == ConfigureTransport(opts, created)
      middlewares == providers[p].Middlewares
      k == LoggerIndex(middlewares)
      loggerNext == Chain(opts, middlewares, k + 1, transport)
  IN /\ clients' = Append(clients,
          [provider |-> p, opts |-> opts,
           Timeout |-> timeouts.Timeout,
           Transport |-> Chain(opts, middlewares, 1, transport),
           created |-> created, transport |-> transport,
           loggerNext |-> loggerNext,
           loggerOut |-> httpLoggerMiddleware(opts, loggerNext),
           writesSeen |-> WritesSoFar])
     /\ loggerEvals' = loggerEvals + 1
     /\ UNCHANGED <<DefaultTimeoutOptions, providers, served, history>>

Build(p, opts) ==
  /\ Len(clients) < MaxClients
  /\ BuildWith(p, opts)

\* ------------------------------------------------------------------ a request through a client
\* does the request pass an enabled HTTP logger on its way to the wire
RECURSIVE Logs(_)
Logs(rt) ==
  IF rt.kind = "Transport" THEN FALSE
  ELSE IF rt.kind = "HTTPLogger" THEN rt.enabled \/ Logs(rt.proxied)
  ELSE Logs(rt.next)

RECURSIVE TransportOf(_)
TransportOf(rt) ==
  IF rt.kind = "Transport" THEN rt
  ELSE IF rt.kind = "HTTPLogger" THEN TransportOf(rt.proxied)
  ELSE TransportOf(rt.next)

RoundTrip(c) ==
  /\ Len(served) < MaxRequests
  /\ served' = Append(served, [client |-> c, logged |-> Logs(clients[c].Transport),
                               dial |-> TransportOf(clients[c].Transport).DialContext.kind])
  /\ UNCHANGED <<DefaultTimeoutOptions, providers, clients, history, loggerEvals>>

\* ------------------------------------------------------------------ specifications
Init ==
  /\ DefaultTimeoutOptions = SdkDefaultTimeoutOptions
  /\ providers = <<>>
  /\ clients = <<>>
  /\ served = <<>>
  /\ history = <<>>
  /\ loggerEvals = 0

Next ==
  \/ \E cfg \in Cfgs : New(cfg)
  \/ \E p \in 1..Len(providers), opts \in FewOptions : Build(p, opts)
  \/ \E c \in 1..Len(clients) : RoundTrip(c)

Spec == Init /\ [][Next]_vars

\* One provider, one client, every label map: the middleware and the hook as functions
\* of the Options they are given.
NewOne(cfg) ==
  /\ providers = <<>>
  /\ New(cfg)

BuildOne(opts) ==
  /\ providers # <<>>
  /\ clients = <<>>
  /\ BuildWith(1, opts)

NextLabels ==
  \/ \E cfg \in Cfgs : NewOne(cfg)
  \/ \E opts \in AllOptions : BuildOne(opts)
  \/ \E c \in 1..Len(clients) : RoundTrip(c)

SpecLabels == Init /\ [][NextLabels]_vars

\* ------------------------------------------------------------------ properties
Client(c) == clients[c]
LabelsOf(c) == clients[c].opts.Labels
Writes == SelectSeq(history, LAMBDA e : e.op = "setDefaultTimeoutOptions")
NamesOf(middlewares) == [i \in 1..Len(middlewares) |-> middlewares[i].name]

\* C1: every provider's middleware list is tracing, metrics, http-logger, user-agent,
\* basic-auth, custom-headers, response-limit, in this order, followed by the signing
\* middleware as last element exactly when the provider's cfg has SigV4AuthEnabled.
C1_FixedOrder ==
  \A p \in 1..Len(providers) :
    NamesOf(providers[p].Middlewares) =
      << "TracingMiddleware", "DataSourceMetricsMiddleware", "httpLoggerMiddleware",
         "SetUserAgentMiddleware", "BasicAuthenticationMiddleware",
         "CustomHeadersMiddleware", "ResponseLimitMiddleware" >>
      \o (IF providers[p].cfg.SigV4AuthEnabled THEN << "SigV4Middleware" >> ELSE <<>>)

\* two providers built from the same policy, signing on
C1_Witness ==
  /\ Len(providers) >= 2
  /\ providers[1].cfg = providers[2].cfg
  /\ providers[1].cfg.SigV4AuthEnabled
  /\ NamesOf(providers[1].Middlewares) = NamesOf(providers[2].Middlewares)
  /\ Len(providers[1].Middlewares) = 8

\* C2: when the label map has no datasource_name, the http-logger middleware returns the
\* transport it was given and the ConfigureTransport hook leaves the transport as created.
C2_NoNameNoOp ==
  \A c \in 1..Len(clients) :
    ~Has(LabelsOf(c), "datasource_name") =>
      /\ Client(c).loggerOut = Client(c).loggerNext
      /\ Client(c).transport = Client(c).created
      /\ Client(c).transport.DialContext.kind = "net.Dialer"

\* a client built without datasource_name but with har_log_enabled = "true" and a path
C2_Witness ==
  \E c \in 1..Len(clients) :
    /\ ~Has(LabelsOf(c), "datasource_name")
    /\ Has(LabelsOf(c), "har_log_enabled") /\ LabelsOf(c)["har_log_enabled"] = "true"
    /\ Has(LabelsOf(c), "har_log_path")
    /\ \E r \in 1..Len(served) : served[r].client = c

\* C3: when har_log_enabled is absent or is not exactly "true", the http-logger middleware
\* returns the transport it was given; a logger is only returned, and a request only
\* logged, when har_log_enabled is exactly "true".
C3_ExactTrue ==
  /\ \A c \in 1..Len(clients) :
       (~Has(LabelsOf(c), "har_log_enabled") \/ LabelsOf(c)["har_log_enabled"] # "true")
         => Client(c).loggerOut = Client(c).loggerNext
  /\ \A c \in 1..Len(clients) :
       Client(c).loggerOut # Client(c).loggerNext =>
         Has(LabelsOf(c), "har_log_enabled") /\ LabelsOf(c)["har_log_enabled"] = "true"
  /\ \A r \in 1..Len(served) :
       served[r].logged =>
         LabelsOf(served[r].client)["har_log_enabled"] = "true"

\* a client with a datasource name and har_log_enabled = "TRUE" whose request was not logged
C3_Witness ==
  \E c \in 1..Len(clients) :
    /\ Has(LabelsOf(c), "datasource_name") /\ LabelsOf(c)["datasource_name"] # <<>>
    /\ Has(LabelsOf(c), "har_log_enabled") /\ LabelsOf(c)["har_log_enabled"] = "TRUE"
    /\ Has(LabelsOf(c), "har_log_path")
    /\ \E r \in 1..Len(served) : served[r].client = c /\ ~served[r].logged

\* C4: when datasource_name is present but empty, the http-logger middleware returns the
\* transport it was given, even with har_log_enabled = "true".
C4_EmptyNameInactive ==
  \A c \in 1..Len(clients) :
    (Has(LabelsOf(c), "datasource_name") /\ LabelsOf(c)["datasource_name"] = <<>>)
      => Client(c).loggerOut = Client(c).loggerNext

\* the write of the global that was the n-th
WriteCfg(n) == Writes[n].cfg

\* C5: a client that takes its timeouts from the default policy has the request timeout
\* (in seconds) of the latest setDefaultTimeoutOptions run that preceded its build, and
\* keeps it whatever runs follow.
C5_TimeoutAtBuild ==
  \A c \in 1..Len(clients) :
    Client(c).opts.Timeouts = <<>> =>
      /\ Client(c).writesSeen \in 1..Len(Writes)
      /\ Client(c).Timeout = WriteCfg(Client(c).writesSeen).DataProxyTimeout * Second

\* a client built after the first run and before a second run with another timeout
C5_Witness ==
  \E c \in 1..Len(clients) :
    /\ Client(c).opts.Timeouts = <<>>
    /\ Client(c).writesSeen = 1
    /\ Len(Writes) = 2
    /\ WriteCfg(1).DataProxyTimeout # WriteCfg(2).DataProxyTimeout
    /\ WriteCfg(1).DataProxyTimeout # WriteCfg(1).DataProxyDialTimeout
    /\ DefaultTimeoutOptions.Timeout # Client(c).Timeout

\* C6 as stated: the global is written a single time in every execution, and that write
\* comes before the construction of every provider.
C6_WrittenOnce ==
  /\ Len(Writes) <= 1
  /\ \A i, j \in 1..Len(history) :
       (history[i].op = "setDefaultTimeoutOptions" /\ history[j].op = "newProviderFunc")
         => i < j

\* C6 amended: every call of New writes the global exactly once, right before it
\* constructs its provider, with that call's cfg.
C6_OncePerNew ==
  /\ Len(Writes) = Len(providers)
  /\ Len(history) = 2 * Len(providers)
  /\ \A i \in 1..Len(history) :
       history[i].op = "newProviderFunc" =>
         /\ i > 1
         /\ history[i - 1].op = "setDefaultTimeoutOptions"
         /\ history[i - 1].cfg = providers[history[i].provider].cfg

\* New has been called twice
C6_Witness ==
  /\ Len(providers) = 2
  /\ Len(Writes) = 2
  /\ providers[1].cfg # providers[2].cfg

\* the activation rule of the http-logger middleware, on a label map
Active(labels) ==
  /\ Has(labels, "datasource_name")
  /\ Has(labels, "har_log_enabled")
  /\ labels["har_log_enabled"] = "true"

\* C8 as stated: the rule is evaluated by every request that traverses the chain and not
\* by the client build.
C8_PerRequest ==
  [][ /\ Len(served') > Len(served) => loggerEvals' = loggerEvals + 1
      /\ Len(clients') > Len(clients) => loggerEvals' = loggerEvals ]_vars

\* C8 amended: the rule is evaluated once per client build, on the Options of the build,
\* and every request through the client is logged or not as that build decided.
C8_PerBuild ==
  /\ loggerEvals = Len(clients)
  /\ \A r \in 1..Len(served) : served[r].logged = Active(LabelsOf(served[r].client))

\* two requests through one logging client, the rule evaluated once
C8_Witness ==
  /\ Len(clients) = 1
  /\ loggerEvals = 1
  /\ Len(served) = 2
  /\ served[1].logged /\ served[2].logged

\* C7: the hook replaces the dial function by a connection-tagging dial, named by the
\* sanitized datasource_name and delegating to the previous dial function, exactly when
\* the label is present and its sanitization succeeds; otherwise the transport is the one
\* that was created, and the client is built all the same.
C7_TagIffSanitized ==
  \A c \in 1..Len(clients) :
    LET labels == LabelsOf(c)
        created == Client(c).created
        tagged == Has(labels, "datasource_name")
                    /\ ~SanitizeLabelName(labels["datasource_name"]).err
    IN /\ tagged =>
            /\ Client(c).transport.DialContext =
                 [kind |-> "conntrack",
                  name |-> SanitizeLabelName(labels["datasource_name"]).value,
                  dial |-> created.DialContext]
            /\ [Client(c).transport EXCEPT !.DialContext = created.DialContext] = created
       /\ ~tagged => Client(c).transport = created
       /\ (Client(c).transport.DialContext.kind = "conntrack") <=> tagged
       /\ TransportOf(Client(c).Transport) = Client(c).transport

\* a client built and used although its non-empty datasource_name cannot be sanitized
C7_Witness ==
  \E c \in 1..Len(clients) :
    /\ Has(LabelsOf(c), "datasource_name")
    /\ Len(LabelsOf(c)["datasource_name"]) > 0
    /\ SanitizeLabelName(LabelsOf(c)["datasource_name"]).err
    /\ Client(c).transport = Client(c).created
    /\ \E r \in 1..Len(served) : served[r].client = c /\ served[r].dial = "net.Dialer"

\* C9: after setDefaultTimeoutOptions(cfg) every field of the global equals the policy
\* field of the same name, the timeouts converted from seconds; max idle connections per
\* host comes from the policy's own per-host value.
C9_FieldByField ==
  Len(Writes) > 0 =>
    LET cfg == WriteCfg(Len(Writes))
    IN /\ DefaultTimeoutOptions.Timeout = cfg.DataProxyTimeout * Second
       /\ DefaultTimeoutOptions.DialTimeout = cfg.DataProxyDialTimeout * Second
       /\ DefaultTimeoutOptions.KeepAlive = cfg.DataProxyKeepAlive * Second
       /\ DefaultTimeoutOptions.TLSHandshakeTimeout =
            cfg.DataProxyTLSHandshakeTimeout * Second
       /\ DefaultTimeoutOptions.ExpectContinueTimeout =
            cfg.DataProxyExpectContinueTimeout * Second
       /\ DefaultTimeoutOptions.MaxConnsPerHost = cfg.DataProxyMaxConnsPerHost
       /\ DefaultTimeoutOptions.MaxIdleConns = cfg.DataProxyMaxIdleConns
       /\ DefaultTimeoutOptions.MaxIdleConnsPerHost = cfg.DataProxyMaxIdleConnsPerHost
       /\ DefaultTimeoutOptions.IdleConnTimeout = cfg.DataProxyIdleConnTimeout * Second

\* the six durations of a TimeoutOptions value or of a built client
Durations(t) ==
  << t.Timeout, t.DialTimeout, t.KeepAlive, t.TLSHandshakeTimeout,
     t.ExpectContinueTimeout, t.IdleConnTimeout >>
CfgDurations(cfg) ==
  << cfg.DataProxyTimeout * Second, cfg.DataProxyDialTimeout * Second,
     cfg.DataProxyKeepAlive * Second, cfg.DataProxyTLSHandshakeTimeout * Second,
     cfg.DataProxyExpectContinueTimeout * Second, cfg.DataProxyIdleConnTimeout * Second >>
ClientDurations(c) ==
  LET t == Client(c).created
  IN << Client(c).Timeout, t.DialContext.Timeout, t.DialContext.KeepAlive,
        t.TLSHandshakeTimeout, t.ExpectContinueTimeout, t.IdleConnTimeout >>

\* C10: the global holds the timeouts of the cfg of the most recent New call, and a client
\* that relies on the default policy has the timeouts of the most recent New call before
\* its build, whichever provider it is built from.
C10_LastWriterWins ==
  /\ providers # <<>> =>
       /\ Durations(DefaultTimeoutOptions) = CfgDurations(providers[Len(providers)].cfg)
       /\ DefaultTimeoutOptions.MaxConnsPerHost =
            providers[Len(providers)].cfg.DataProxyMaxConnsPerHost
       /\ DefaultTimeoutOptions.MaxIdleConns =
            providers[Len(providers)].cfg.DataProxyMaxIdleConns
  /\ \A c \in 1..Len(clients) :
       Client(c).opts.Timeouts = <<>> =>
         ClientDurations(c) = CfgDurations(providers[Client(c).writesSeen].cfg)

\* a client of the first provider, built after a second New with other timeouts
C10_Witness ==
  \E c \in 1..Len(clients) :
    /\ Client(c).provider = 1
    /\ Client(c).writesSeen = 2
    /\ Client(c).opts.Timeouts = <<>>
    /\ CfgDurations(providers[1].cfg) # CfgDurations(providers[2].cfg)
    /\ ClientDurations(c) = CfgDurations(providers[2].cfg)
    /\ ClientDurations(c) # CfgDurations(providers[1].cfg)
====
